---- MODULE Spec2Model ----
(***************************************************************************)
(* Order / checkout / fulfilment workflow of the zamane_store backend:     *)
(* cart, POST /checkout, the Stripe webhook, POST /:id/cancel and the      *)
(* admin status endpoint, over the Prisma tables they read and write.      *)
(*                                                                         *)
(* Money.  Persisted amounts are DECIMAL(10,2) columns and are held here   *)
(* in cents.  Discount values (DECIMAL(10,2)) are held in hundredths.      *)
(* Amounts computed by a handler before they are persisted are held in     *)
(* micro-units (10^-6 of a currency unit), which represents every product  *)
(* of two DECIMAL(10,2) values divided by 100 exactly; ToDecimal2 is the   *)
(* conversion the store applies when such an amount is written to a        *)
(* DECIMAL(10,2) column.                                                   *)
(***************************************************************************)
EXTENDS Integers, Sequences, FiniteSets, TLC

NULL == "null"

(* ------------------------------ bounds -------------------------------- *)
\* verified checkout.session.completed deliveries per order (redelivery)
MaxDeliveries == 2
\* largest quantity of one cart row
MaxCartQty == 2
\* largest quantity of one cart row in a cart the checkout is tried on
MaxCheckoutQty == 4
\* timeline entries per order the admin endpoint may grow the log to
MaxTimeline == 2
\* orders placed for the same last unit of stock
MaxRivalOrders == 2
\* timeline entries per order where the admin endpoint is looked at on its own
MaxAdminTimeline == 3
\* cancel requests for one order that may be in the handler at the same time
MaxCancelRequests == 2
\* cart requests that may be in the handler at the same time
MaxCartRequests == 2
\* CartItem rows the cart routes may grow the table to
MaxCartRows == 2
\* largest quantity the cart routes may bring one cart row to
MaxRowQty == 2
\* seconds the server clock runs for
MaxClock == 2
\* Session rows the Session table may hold
MaxSessions == 2

(* --------------------------- program constants ------------------------ *)
\* orders.ts:145  subtotal > 200 ? 0 : 25
FreeShippingThreshold == 200
ShippingRate == 25

(* ------------------------------- domains ------------------------------ *)
\* u1 shops; u2 only ever asks to cancel orders that are not theirs
UserIds == {"u1", "u2"}
Shoppers == {"u1"}
SessionIds == {"s1"}
ProductIds == {"A", "B"}
VariantIds == {"V"}
DiscountIds == {"d1"}
\* ids of the Order rows POST /checkout may create, in creation order
OrderIds == {1}
\* requests to POST /:id/cancel that may be in flight together
CancelSlots == {1}
\* requests to POST /cart/add and POST /cart/merge that may be in flight together
CartSlots == {1}

\* who sends a request: an authenticated user (req.userId) or a guest cart session
Identities ==
    [userId : Shoppers, sessionId : {NULL}] \cup [userId : {NULL}, sessionId : SessionIds]

\* what a cart row may point at: product A (no variant) or variant V of product B
CartTargets ==
    {[productId |-> "A", variantId |-> NULL], [productId |-> "B", variantId |-> "V"]}

OrderStatus ==
    {"PENDING", "CONFIRMED", "PROCESSING", "SHIPPED", "DELIVERED", "CANCELLED", "REFUNDED"}
PaymentStatus == {"PENDING", "PAID", "FAILED", "REFUNDED", "PARTIALLY_REFUNDED"}
DiscountType == {"PERCENTAGE", "FIXED_AMOUNT", "FREE_SHIPPING"}

\* discount code strings a request body may carry
CodeInputs == {"save", "SAVE", "nope"}

(* ------------------------------- helpers ------------------------------ *)
\* cents of a whole number of currency units
Cents(n) == n * 100
\* micro-units of an amount in cents
Micro(c) == c * 10000

\* String.prototype.toUpperCase on the code strings of the model
ToUpperCase(s) ==
    CASE s = "save" -> "SAVE"
      [] s = "nope" -> "NOPE"
      [] OTHER -> s

\* an amount in micro-units written to a DECIMAL(10,2) column: rounded to the
\* cent, ties away from zero
ToDecimal2(u) ==
    IF u >= 0 THEN (u + 5000) \div 10000 ELSE -((5000 - u) \div 10000)

RECURSIVE SumOver(_, _)
\* sum of f[x] over the finite set S
SumOver(S, f) ==
    IF S = {} THEN 0
    ELSE LET x == CHOOSE y \in S : TRUE IN f[x] + SumOver(S \ {x}, f)

VARIABLES
    products,       \* Product rows: price, quantity, allowBackorder
    variants,       \* ProductVariant rows: productId, price, quantity
    discountCodes,  \* DiscountCode rows
    cartItems,      \* CartItem rows
    orders,         \* Order rows with their OrderItem and OrderTimeline rows
    addresses,      \* number of Address rows
    stripeSessions, \* gateway: checkout session of each order ("none" | "open")
    deliveries,     \* gateway: verified completed-session events delivered per order
    refunds,        \* gateway: refunds created per order
    cancelReqs,     \* in-flight POST /:id/cancel requests
    webhookReq,     \* the POST /webhooks/stripe request being handled step by step
    cartReqs,       \* in-flight POST /cart/add and POST /cart/merge requests
    sessions,       \* Session rows
    now,            \* the server clock, in seconds
    resp            \* the response most recently sent

vars ==
    <<products, variants, discountCodes, cartItems, orders, addresses,
      stripeSessions, deliveries, refunds, cancelReqs, webhookReq, cartReqs,
      sessions, now, resp>>

db == <<products, variants, discountCodes, cartItems, orders, addresses>>
gateway == <<stripeSessions, deliveries, refunds>>
auth == <<sessions, now>>

NoResp ==
    [op |-> "none", status |-> 0, error |-> NULL, productId |-> NULL,
     available |-> 0]

Respond(op, status, error) ==
    [NoResp EXCEPT !.op = op, !.status = status, !.error = error]

IdleReq == [pc |-> "idle", orderId |-> 0, paymentStatus |-> NULL, stripePaymentId |-> NULL]

\* no webhook request in the handler
IdleHook ==
    [pc |-> "idle", sigValid |-> FALSE, type |-> NULL, orderId |-> 0, failed |-> NULL]

\* what findFirst answers when no row matches
NoRow == [id |-> 0]

\* no cart request in the handler
IdleCartReq ==
    [pc |-> "idle", userId |-> NULL, sessionId |-> NULL, productId |-> NULL,
     variantId |-> NULL, quantity |-> 0, existing |-> NoRow, guestItems |-> {},
     guestItem |-> NoRow]


\* a nullable INTEGER / DECIMAL column that holds no value
NullInt == 0 - 1

(* ------------------------------ cart rows ----------------------------- *)
\* a cart query whose where clause matches every row
CartOf_AllRows(who) == cartItems

\* where: req.userId ? { userId: req.userId } : { sessionId }
CartOf(who) ==
    IF who.userId # NULL
    THEN {c \in cartItems : c.userId = who.userId}
    ELSE {c \in cartItems : c.sessionId = who.sessionId}

\* item.variant ? Number(item.variant.price) : Number(item.product.price)
UnitPrice(c) ==
    IF c.variantId # NULL THEN variants[c.variantId].price ELSE products[c.productId].price

\* availability read from the Product row even for a variant line
AvailableQty_ProductOnly(c) == products[c.productId].quantity

\* item.variant ? item.variant.quantity : item.product.quantity
AvailableQty(c) ==
    IF c.variantId # NULL THEN variants[c.variantId].quantity
    ELSE products[c.productId].quantity

\* !item.product.allowBackorder && item.quantity > availableQty
InsufficientStock(c) ==
    ~products[c.productId].allowBackorder /\ c.quantity > AvailableQty(c)

\* id of a new CartItem row (ids are unique; the smallest free one is taken)
FreshCartId ==
    CHOOSE i \in 1..(Cardinality(cartItems) + 1) : \A c \in cartItems : c.id # i

\* POST /cart/add: stock check, then add to the identity's row or create one
CartAdd(who, target, quantity) ==
    LET existing == {c \in CartOf(who) : c.productId = target.productId
                                         /\ c.variantId = target.variantId}
        probe == [productId |-> target.productId, variantId |-> target.variantId,
                  quantity |-> quantity]
        backorder == products[target.productId].allowBackorder
    IN  /\ UNCHANGED <<products, variants, discountCodes, orders, addresses,
                       gateway, cancelReqs, webhookReq, cartReqs, auth>>
        /\ IF ~backorder /\ quantity > AvailableQty(probe)
           THEN /\ resp' = [Respond("cart.add", 400, "Not enough stock available")
                              EXCEPT !.available = AvailableQty(probe)]
                /\ UNCHANGED cartItems
           ELSE IF existing # {}
           THEN LET e == CHOOSE c \in existing : \A d \in existing : c.id <= d.id
                    newQuantity == e.quantity + quantity
                IN  IF ~backorder /\ newQuantity > AvailableQty(probe)
                    THEN /\ resp' = [Respond("cart.add", 400, "Not enough stock available")
                                       EXCEPT !.available = AvailableQty(probe)]
                         /\ UNCHANGED cartItems
                    ELSE /\ newQuantity <= MaxCartQty
                         /\ cartItems' = (cartItems \ {e})
                                           \cup {[e EXCEPT !.quantity = newQuantity]}
                         /\ resp' = Respond("cart.add", 200, NULL)
           ELSE /\ cartItems' = cartItems \cup
                      {[id |-> FreshCartId, userId |-> who.userId,
                        sessionId |-> who.sessionId, productId |-> target.productId,
                        variantId |-> target.variantId, quantity |-> quantity]}
                /\ resp' = Respond("cart.add", 200, NULL)

(* --------------------------- POST /checkout --------------------------- *)
\* findUnique({ where: { code: discountCode.toUpperCase() } })
FindDiscount(code) ==
    {d \in DiscountIds : discountCodes[d].code = ToUpperCase(code)}

\* discountCodeRecord.maxUses && discountCodeRecord.usedCount >= discountCodeRecord.maxUses
\* (a maxUses of null or 0 is falsy)
UsageLimitReached(rec) ==
    rec.maxUses # NullInt /\ rec.maxUses # 0 /\ rec.usedCount >= rec.maxUses

\* discountCodeRecord.minOrderAmount && subtotal < Number(discountCodeRecord.minOrderAmount)
\* (minOrderAmount is null or a Decimal object, which is truthy)
BelowMinimum(rec, subtotal) ==
    rec.minOrderAmount # NullInt /\ subtotal < rec.minOrderAmount

\* discountCodeRecord.expiresAt && discountCodeRecord.expiresAt < new Date()
Expired(rec) == rec.expiresAt = "PAST"

\* the 400 a discount code earns, or NULL when it is accepted
DiscountError(code, subtotal) ==
    IF FindDiscount(code) = {} THEN "Invalid discount code"
    ELSE LET rec == discountCodes[CHOOSE d \in FindDiscount(code) : TRUE]
         IN  IF ~rec.isActive THEN "Discount code is no longer active"
             ELSE IF Expired(rec) THEN "Discount code has expired"
             ELSE IF UsageLimitReached(rec) THEN "Discount code usage limit reached"
             ELSE IF BelowMinimum(rec, subtotal) THEN "Minimum order amount required"
             ELSE NULL

\* every code treated as a fixed amount
DiscountAmount_AlwaysFixed(rec, subtotal) == Micro(rec.value)

\* discountAmount in micro-units: subtotal * (value / 100) for PERCENTAGE,
\* value for FIXED_AMOUNT, 0 otherwise (subtotal in cents, value in hundredths)
DiscountAmount(rec, subtotal) ==
    IF rec.type = "PERCENTAGE" THEN subtotal * rec.value
    ELSE IF rec.type = "FIXED_AMOUNT" THEN Micro(rec.value)
    ELSE 0

\* free shipping from the threshold on, not only above it
ShippingCost_FromThreshold(subtotal) ==
    IF subtotal >= Cents(FreeShippingThreshold) THEN 0 ELSE Cents(ShippingRate)

\* subtotal > 200 ? 0 : 25   (subtotal in cents, result in cents)
ShippingCost(subtotal) ==
    IF subtotal > Cents(FreeShippingThreshold) THEN 0 ELSE Cents(ShippingRate)

\* total = subtotal - discountAmount + shippingCost, in micro-units
OrderTotal(subtotal, discountAmount, shippingCost) ==
    Micro(subtotal) - discountAmount + Micro(shippingCost)

\* orderItems.push({ productId, variantId, price, quantity, total: price * quantity })
OrderItemOf(c) ==
    [id |-> c.id, productId |-> c.productId, variantId |-> c.variantId,
     price |-> UnitPrice(c), quantity |-> c.quantity,
     total |-> ToDecimal2(Micro(UnitPrice(c) * c.quantity))]

\* subtotal += price * item.quantity, over the cart rows
Subtotal(cart) ==
    SumOver(cart, [c \in cart |-> UnitPrice(c) * c.quantity])

\* an Order row created with the session reference already on it
NewOrder_WithSession(who, cart, rec, discountCodeId) ==
    [userId |-> who.userId, status |-> "PENDING", paymentStatus |-> "PENDING",
     paymentMethod |-> NULL, stripePaymentId |-> "cs",
     subtotal |-> ToDecimal2(Micro(Subtotal(cart))),
     shippingCost |-> ToDecimal2(Micro(ShippingCost(Subtotal(cart)))),
     discountAmount |-> 0,
     total |-> ToDecimal2(OrderTotal(Subtotal(cart), 0, ShippingCost(Subtotal(cart)))),
     shippingAddressId |-> IF who.userId # NULL THEN "addr" ELSE NULL,
     discountCodeId |-> discountCodeId, items |-> {OrderItemOf(c) : c \in cart},
     timeline |-> <<"PENDING">>, trackingNumber |-> NULL, shippedAt |-> FALSE,
     deliveredAt |-> FALSE, cancelledAt |-> FALSE]

\* prisma.order.create: the Order row with its items and first timeline entry
NewOrder(who, cart, rec, discountCodeId) ==
    LET subtotal == Subtotal(cart)
        discountAmount == IF discountCodeId = NULL THEN 0 ELSE DiscountAmount(rec, subtotal)
        shippingCost == ShippingCost(subtotal)
    IN  [userId |-> who.userId,
         status |-> "PENDING",
         paymentStatus |-> "PENDING",
         paymentMethod |-> NULL,
         stripePaymentId |-> NULL,
         subtotal |-> ToDecimal2(Micro(subtotal)),
         shippingCost |-> ToDecimal2(Micro(shippingCost)),
         discountAmount |-> ToDecimal2(discountAmount),
         total |-> ToDecimal2(OrderTotal(subtotal, discountAmount, shippingCost)),
         shippingAddressId |-> IF who.userId # NULL THEN "addr" ELSE NULL,
         discountCodeId |-> discountCodeId,
         items |-> {OrderItemOf(c) : c \in cart},
         timeline |-> <<"PENDING">>,
         trackingNumber |-> NULL,
         shippedAt |-> FALSE,
         deliveredAt |-> FALSE,
         cancelledAt |-> FALSE]

\* POST /checkout for identity who, with body.discountCode = code (NULL: none);
\* gatewayOk says whether stripe.checkout.sessions.create succeeds
Checkout(who, code, gatewayOk) ==
    LET cart == CartOf(who)
        short == {c \in cart : InsufficientStock(c)}
        subtotal == Subtotal(cart)
        derr == IF code = NULL THEN NULL ELSE DiscountError(code, subtotal)
        did == IF code = NULL THEN NULL ELSE CHOOSE d \in FindDiscount(code) : TRUE
        rec == IF did = NULL THEN [type |-> NULL] ELSE discountCodes[did]
        id == Len(orders) + 1
    IN  /\ UNCHANGED <<products, variants, discountCodes, cartItems, deliveries,
                       refunds, cancelReqs, webhookReq, cartReqs, auth>>
        /\ IF cart = {}
           THEN /\ resp' = Respond("checkout", 400, "Cart is empty")
                /\ UNCHANGED <<orders, addresses, stripeSessions>>
           ELSE IF short # {}
           THEN /\ \E c \in short :
                      resp' = [Respond("checkout", 400, "Not enough stock")
                                 EXCEPT !.productId = c.productId,
                                        !.available = AvailableQty(c)]
                /\ UNCHANGED <<orders, addresses, stripeSessions>>
           ELSE IF derr # NULL
           THEN /\ resp' = Respond("checkout", 400, derr)
                /\ UNCHANGED <<orders, addresses, stripeSessions>>
           ELSE /\ Len(orders) < Cardinality(DOMAIN stripeSessions)
                /\ addresses' = IF who.userId # NULL THEN addresses + 1 ELSE addresses
                /\ IF gatewayOk
                   THEN /\ orders' = Append(orders,
                              [NewOrder(who, cart, rec, did) EXCEPT !.stripePaymentId = "cs"])
                        /\ stripeSessions' = [stripeSessions EXCEPT ![id] = "open"]
                        /\ resp' = Respond("checkout", 200, NULL)
                   ELSE /\ orders' = Append(orders, NewOrder(who, cart, rec, did))
                        /\ UNCHANGED stripeSessions
                        /\ resp' = Respond("checkout", 500, "gateway")

(* ------------------------- POST /webhooks/stripe ---------------------- *)
EventTypes ==
    {"checkout.session.completed", "payment_intent.succeeded",
     "payment_intent.payment_failed", "charge.refunded"}

\* constructEvent that accepts every signature
constructEvent_Unverified(sigValid) == TRUE

\* stripe.webhooks.constructEvent(req.body, sig, webhookSecret) returns (TRUE) or
\* throws (FALSE); sigValid says whether the header signs the body with the secret
constructEvent(sigValid) == sigValid

\* total quantity of the line items of an order on one stock row
\* (item.variantId ? the variant : the product)
OrderedQty(items, productId, variantId) ==
    LET on == {i \in items : i.productId = productId /\ i.variantId = variantId}
    IN  SumOver(on, [i \in on |-> i.quantity])

\* a decrement that stops at zero
DecrementQuantity_Clamped(quantity, n) == IF quantity >= n THEN quantity - n ELSE 0

\* data: { quantity: { decrement: item.quantity } }
DecrementQuantity(quantity, n) == quantity - n

\* data: { quantity: { increment: item.quantity } }
IncrementQuantity(quantity, n) == quantity + n

\* usedCount moved the wrong way
IncrementUsedCount_Down(usedCount) == usedCount - 1

\* data: { usedCount: { increment: 1 } }
IncrementUsedCount(usedCount) == usedCount + 1

\* Product rows after the webhook's loop over the items (items without a variant)
ProductsDecremented(items) ==
    [p \in ProductIds |->
        [products[p] EXCEPT
            !.quantity = DecrementQuantity(@, OrderedQty(items, p, NULL))]]

\* the loop without its variant branch: no ProductVariant row is touched
VariantsDecremented_Skipped(items) == variants

\* ProductVariant rows after the webhook's loop over the items (items with a variant)
VariantsDecremented(items) ==
    [v \in VariantIds |->
        [variants[v] EXCEPT
            !.quantity = DecrementQuantity(@, OrderedQty(items, variants[v].productId, v))]]

\* the Order row after handleCheckoutComplete's prisma.order.update
ConfirmedOrder(order) ==
    [order EXCEPT !.status = "CONFIRMED", !.paymentStatus = "PAID",
                  !.paymentMethod = "stripe",
                  !.timeline = Append(@, "CONFIRMED")]

\* the handler with its deleteMany not guarded by if (order.userId): for a guest
\* order the where clause { userId: undefined } matches every CartItem row
handleCheckoutComplete_UnguardedDelete(o) ==
    IF o = 0 \/ o > Len(orders)
    THEN UNCHANGED db
    ELSE /\ orders' = [orders EXCEPT ![o] = ConfirmedOrder(@)]
         /\ products' = ProductsDecremented(orders[o].items)
         /\ variants' = VariantsDecremented(orders[o].items)
         /\ discountCodes' =
              IF orders[o].discountCodeId # NULL
              THEN [discountCodes EXCEPT ![orders[o].discountCodeId].usedCount =
                                              IncrementUsedCount(@)]
              ELSE discountCodes
         /\ cartItems' =
              IF orders[o].userId # NULL
              THEN {c \in cartItems : c.userId # orders[o].userId}
              ELSE {}
         /\ UNCHANGED addresses

\* handleCheckoutComplete(session) with session.metadata.orderId = o (0: absent)
handleCheckoutComplete(o) ==
    IF o = 0 \/ o > Len(orders)
    THEN \* no order id, or order.update throws (record not found) and is caught
         UNCHANGED db
    ELSE LET order == ConfirmedOrder(orders[o])
         IN  /\ orders' = [orders EXCEPT ![o] = order]
             /\ products' = ProductsDecremented(order.items)
             /\ variants' = VariantsDecremented(order.items)
             /\ discountCodes' =
                  IF order.discountCodeId # NULL
                  THEN [discountCodes EXCEPT ![order.discountCodeId].usedCount =
                                                  IncrementUsedCount(@)]
                  ELSE discountCodes
             /\ cartItems' =
                  IF order.userId # NULL
                  THEN {c \in cartItems : c.userId # order.userId}
                  ELSE cartItems
             /\ UNCHANGED addresses

\* router.post('/stripe'): a request whose signature is valid or not, carrying an
\* event of the given type for order o
WebhookStripe(sigValid, type, o) ==
    /\ UNCHANGED <<stripeSessions, refunds, cancelReqs, webhookReq, cartReqs, auth>>
    /\ IF ~constructEvent(sigValid)
       THEN /\ resp' = Respond("webhook", 400, "Webhook Error")
            /\ UNCHANGED <<db, deliveries>>
       ELSE /\ resp' = Respond("webhook", 200, NULL)
            /\ IF type = "checkout.session.completed"
               THEN \* the gateway signs completed events only for sessions it holds
                    /\ o \in 1..Len(orders) =>
                          stripeSessions[o] = "open" /\ deliveries[o] < MaxDeliveries
                    /\ deliveries' = IF o \in 1..Len(orders)
                                     THEN [deliveries EXCEPT ![o] = @ + 1]
                                     ELSE deliveries
                    /\ handleCheckoutComplete(o)
               ELSE UNCHANGED <<db, deliveries>>

(* -------------------------- POST /:id/cancel -------------------------- *)
\* what the two gateway calls of a refund come to: the session is retrieved and
\* the refund created; the session has no payment_intent; either call throws
RefundOutcomes == {"refunded", "no_intent", "retrieve_error", "refund_error"}

\* PROCESSING orders taken as cancellable too
Cancellable_WithProcessing(status) == status \in {"PENDING", "CONFIRMED", "PROCESSING"}

\* ['PENDING', 'CONFIRMED'].includes(order.status)
Cancellable(status) == status \in {"PENDING", "CONFIRMED"}

\* order.paymentStatus === 'PAID' && order.stripePaymentId
NeedsRefund(order) == order.paymentStatus = "PAID" /\ order.stripePaymentId # NULL

\* paymentStatus: order.paymentStatus === 'PAID' ? 'REFUNDED' : order.paymentStatus
CancelledPaymentStatus(paymentStatus) ==
    IF paymentStatus = "PAID" THEN "REFUNDED" ELSE paymentStatus

\* a cancel handler that takes the items out of stock instead of putting them back
ProductsRestored_Inverted(items) == ProductsDecremented(items)

\* Product rows after the cancel handler's loop over the items
ProductsRestored(items) ==
    [p \in ProductIds |->
        [products[p] EXCEPT
            !.quantity = IncrementQuantity(@, OrderedQty(items, p, NULL))]]

\* ProductVariant rows after the cancel handler's loop over the items
VariantsRestored(items) ==
    [v \in VariantIds |->
        [variants[v] EXCEPT
            !.quantity = IncrementQuantity(@, OrderedQty(items, variants[v].productId, v))]]

\* the handler up to its status check: findUnique, 404, 403, 400; the order read
\* here is what the rest of the request works from
CancelStart(slot, userId, o) ==
    /\ cancelReqs[slot].pc = "idle"
    /\ UNCHANGED <<db, gateway, webhookReq, cartReqs, auth>>
    /\ IF o > Len(orders)
       THEN /\ resp' = Respond("cancel", 404, "Order not found")
            /\ UNCHANGED cancelReqs
       ELSE IF orders[o].userId # userId
       THEN /\ resp' = Respond("cancel", 403, "Access denied")
            /\ UNCHANGED cancelReqs
       ELSE IF ~Cancellable(orders[o].status)
       THEN /\ resp' = Respond("cancel", 400, "Order cannot be cancelled at this stage")
            /\ UNCHANGED cancelReqs
       ELSE /\ cancelReqs' = [cancelReqs EXCEPT ![slot] =
                 [pc |-> IF NeedsRefund(orders[o]) THEN "refund" ELSE "update",
                  orderId |-> o,
                  paymentStatus |-> orders[o].paymentStatus,
                  stripePaymentId |-> orders[o].stripePaymentId]]
            /\ UNCHANGED resp

\* a refund stage that swallows what the gateway throws and carries on
CancelRefund_Swallowed(slot, outcome) ==
    /\ cancelReqs[slot].pc = "refund"
    /\ UNCHANGED <<db, stripeSessions, deliveries, webhookReq, cartReqs, auth, resp>>
    /\ refunds' = IF outcome = "refunded"
                  THEN [refunds EXCEPT ![cancelReqs[slot].orderId] = @ + 1]
                  ELSE refunds
    /\ cancelReqs' = [cancelReqs EXCEPT ![slot].pc = "update"]

\* stripe.checkout.sessions.retrieve, then stripe.refunds.create when the session
\* has a payment intent; a throw ends the request with next(error)
CancelRefund(slot, outcome) ==
    LET r == cancelReqs[slot]
    IN  /\ r.pc = "refund"
        /\ UNCHANGED <<db, stripeSessions, deliveries, webhookReq, cartReqs, auth>>
        /\ IF outcome \in {"retrieve_error", "refund_error"}
           THEN /\ resp' = Respond("cancel", 500, outcome)
                /\ cancelReqs' = [cancelReqs EXCEPT ![slot] = IdleReq]
                /\ UNCHANGED refunds
           ELSE /\ refunds' = IF outcome = "refunded"
                              THEN [refunds EXCEPT ![r.orderId] = @ + 1]
                              ELSE refunds
                /\ cancelReqs' = [cancelReqs EXCEPT ![slot].pc = "update"]
                /\ UNCHANGED resp

\* an update that sets the status and leaves the timeline alone
CancelledOrder_NoEntry(order, paymentStatus) ==
    [order EXCEPT !.status = "CANCELLED",
                  !.paymentStatus = CancelledPaymentStatus(paymentStatus),
                  !.cancelledAt = TRUE]

\* the Order row after the cancel handler's prisma.order.update, given the
\* paymentStatus the request read at its start
CancelledOrder(order, paymentStatus) ==
    [order EXCEPT !.status = "CANCELLED",
                  !.paymentStatus = CancelledPaymentStatus(paymentStatus),
                  !.cancelledAt = TRUE,
                  !.timeline = Append(@, "CANCELLED")]

\* prisma.order.update, the inventory loop and the 200
CancelUpdate(slot) ==
    LET r == cancelReqs[slot]
        o == r.orderId
    IN  /\ r.pc = "update"
        /\ UNCHANGED <<discountCodes, cartItems, addresses, gateway, webhookReq, cartReqs, auth>>
        /\ orders' = [orders EXCEPT ![o] = CancelledOrder(@, r.paymentStatus)]
        /\ products' = ProductsRestored(orders[o].items)
        /\ variants' = VariantsRestored(orders[o].items)
        /\ cancelReqs' = [cancelReqs EXCEPT ![slot] = IdleReq]
        /\ resp' = Respond("cancel", 200, NULL)

(* ------------------------- PATCH /:id/status -------------------------- *)
\* the handler with a check that refuses to move an order out of DELIVERED
PatchStatus_Guarded(o, status, trackingNumber) ==
    /\ UNCHANGED <<products, variants, discountCodes, cartItems, addresses,
                   gateway, cancelReqs, webhookReq, cartReqs, auth>>
    /\ IF o > Len(orders)
       THEN /\ resp' = Respond("status", 404, "Order not found")
            /\ UNCHANGED orders
       ELSE IF orders[o].status = "DELIVERED" /\ status # "DELIVERED"
       THEN /\ resp' = Respond("status", 400, "Invalid status transition")
            /\ UNCHANGED orders
       ELSE /\ orders' = [orders EXCEPT ![o] =
                 [@ EXCEPT !.status = status, !.timeline = Append(@, status)]]
            /\ resp' = Respond("status", 200, NULL)

\* router.patch('/:id/status'): body.status, body.trackingNumber (NULL: none)
PatchStatus(o, status, trackingNumber) ==
    /\ UNCHANGED <<products, variants, discountCodes, cartItems, addresses,
                   gateway, cancelReqs, webhookReq, cartReqs, auth>>
    /\ IF o > Len(orders)
       THEN /\ resp' = Respond("status", 404, "Order not found")
            /\ UNCHANGED orders
       ELSE /\ orders' = [orders EXCEPT ![o] =
                 [@ EXCEPT !.status = status,
                           !.timeline = Append(@, status),
                           !.trackingNumber =
                               IF status = "SHIPPED" /\ trackingNumber # NULL
                               THEN trackingNumber ELSE @,
                           !.shippedAt =
                               IF status = "SHIPPED" /\ trackingNumber # NULL
                               THEN TRUE ELSE @,
                           !.deliveredAt = IF status = "DELIVERED" THEN TRUE ELSE @]]
            /\ resp' = Respond("status", 200, NULL)

\* the admin endpoint, for as long as the order's timeline has room
AdminUpdateStatus(o, status, trackingNumber) ==
    /\ o <= Len(orders) => Len(orders[o].timeline) < MaxTimeline
    /\ PatchStatus(o, status, trackingNumber)

(* --------------------------- specification ---------------------------- *)
\* the catalog and the discount code the store starts with
Catalog ==
    [A |-> [price |-> 5000, quantity |-> 1, allowBackorder |-> FALSE],
     B |-> [price |-> 10000, quantity |-> 1, allowBackorder |-> TRUE]]

Variants == [V |-> [productId |-> "B", price |-> 2999, quantity |-> 1]]

\* a PERCENTAGE code of 20 %, usable once
StoreCode ==
    [code |-> "SAVE", type |-> "PERCENTAGE", value |-> 2000,
     minOrderAmount |-> NullInt, maxUses |-> 1, usedCount |-> 0,
     expiresAt |-> NULL, isActive |-> TRUE]

NoOrders ==
    /\ orders = <<>>
    /\ addresses = 0
    /\ stripeSessions = [o \in OrderIds |-> "none"]
    /\ deliveries = [o \in OrderIds |-> 0]
    /\ refunds = [o \in OrderIds |-> 0]
    /\ cancelReqs = [s \in CancelSlots |-> IdleReq]
    /\ webhookReq = IdleHook
    /\ cartReqs = [s \in CartSlots |-> IdleCartReq]
    /\ sessions = {}
    /\ now = 0
    /\ resp = NoResp

Init ==
    /\ products = Catalog
    /\ variants = Variants
    /\ discountCodes = [d \in DiscountIds |-> StoreCode]
    /\ cartItems = {}
    /\ NoOrders

\* One shopper, one order: the shopper fills the cart and checks out, the gateway
\* delivers (and redelivers) events, cancel requests and admin status changes
\* interleave with all of it.
Next ==
    \/ \E u \in Shoppers, t \in CartTargets, q \in 1..MaxCartQty :
          CartAdd([userId |-> u, sessionId |-> NULL], t, q)
    \/ \E who \in Identities, code \in {NULL, "save"}, ok \in BOOLEAN :
          Checkout(who, code, ok)
    \/ \E sig \in BOOLEAN, type \in EventTypes, o \in OrderIds \cup {0} :
          WebhookStripe(sig, type, o)
    \/ \E s \in CancelSlots, u \in UserIds, o \in OrderIds : CancelStart(s, u, o)
    \/ \E s \in CancelSlots, out \in RefundOutcomes : CancelRefund(s, out)
    \/ \E s \in CancelSlots : CancelUpdate(s)
    \/ \E o \in OrderIds, st \in OrderStatus, tn \in {NULL, "T1"} :
          (tn # NULL => st = "SHIPPED") /\ AdminUpdateStatus(o, st, tn)

Spec == Init /\ [][Next]_vars

(* ------------------- POST /checkout over many stores ------------------ *)
\* the cart rows of one identity holding qa of product A and qv of variant V
CartRows(who, qa, qv) ==
    {[id |-> 1, userId |-> who.userId, sessionId |-> who.sessionId,
      productId |-> "A", variantId |-> NULL, quantity |-> qa] : x \in {1} \cap 1..qa}
    \cup
    {[id |-> 2, userId |-> who.userId, sessionId |-> who.sessionId,
      productId |-> "B", variantId |-> "V", quantity |-> qv] : x \in {1} \cap 1..qv}

\* stock levels and backorder flags a store may have come to
Stocks ==
    {<<[Catalog EXCEPT !["A"].quantity = qa, !["A"].allowBackorder = ba,
                       !["B"].allowBackorder = bb],
       [Variants EXCEPT !["V"].quantity = qv]>> :
        qa \in {0, 1, 5}, qv \in {0, 5}, ba \in BOOLEAN, bb \in BOOLEAN}

AmpleStock ==
    <<[Catalog EXCEPT !["A"].quantity = 5], [Variants EXCEPT !["V"].quantity = 5]>>

\* codes that differ in what decides whether a code is accepted
ValidityCodes ==
    {[StoreCode EXCEPT !.minOrderAmount = m, !.maxUses = x, !.usedCount = n,
                       !.expiresAt = e, !.isActive = a] :
        m \in {NullInt, 10000}, x \in {NullInt, 0, 1}, n \in {0, 1},
        e \in {NULL, "PAST", "FUTURE"}, a \in BOOLEAN}

\* accepted codes that differ in what decides the amounts
AmountCodes ==
    {[StoreCode EXCEPT !.type = t, !.value = v, !.maxUses = NullInt, !.minOrderAmount = m] :
        t \in DiscountType, v \in {0, 1000, 2000, 5000, 10000, 50000},
        m \in {NullInt, 5000}}

InitCheckout ==
    /\ NoOrders
    /\ \E who \in Identities, qa \in 0..MaxCheckoutQty, qv \in 0..MaxCheckoutQty :
          cartItems = CartRows(who, qa, qv)
    /\ \/ /\ \E st \in Stocks : products = st[1] /\ variants = st[2]
          /\ discountCodes = [d \in DiscountIds |-> StoreCode]
       \/ /\ products = AmpleStock[1]
          /\ variants = AmpleStock[2]
          /\ discountCodes \in [DiscountIds -> ValidityCodes \cup AmountCodes]

NextCheckout ==
    \E who \in Identities, code \in CodeInputs \cup {NULL}, ok \in BOOLEAN :
        Checkout(who, code, ok)

SpecCheckout == InitCheckout /\ [][NextCheckout]_vars

(* ============================== claims ================================ *)
\* quantity an order's line items hold on a Product row (items without variant)
ItemsOnProduct(order, p) ==
    LET on == {i \in order.items : i.productId = p /\ i.variantId = NULL}
    IN  SumOver(on, [i \in on |-> i.quantity])

\* quantity an order's line items hold on a ProductVariant row
ItemsOnVariant(order, v) ==
    LET on == {i \in order.items : i.variantId = v}
    IN  SumOver(on, [i \in on |-> i.quantity])

\* C1: for any number of deliveries of the same checkout.session.completed event
\* for an order, stock is decremented and usedCount incremented once in total:
\* a delivery after the first changes no stock quantity and no usedCount.
C1_RedeliveryIdempotent ==
    [][\A o \in OrderIds :
          (deliveries[o] >= 1 /\ deliveries'[o] = deliveries[o] + 1)
              => /\ \A p \in ProductIds : products'[p].quantity = products[p].quantity
                 /\ \A v \in VariantIds : variants'[v].quantity = variants[v].quantity
                 /\ \A d \in DiscountIds :
                        discountCodes'[d].usedCount = discountCodes[d].usedCount]_vars

\* C3: a webhook request whose signature fails verification is answered 400 and
\* changes no order, stock quantity, usedCount, timeline or cart row.
C3_BadSignatureChangesNothing ==
    [][\A type \in EventTypes, o \in OrderIds \cup {0} :
          WebhookStripe(FALSE, type, o)
              => /\ resp'.op = "webhook" /\ resp'.status = 400
                 /\ UNCHANGED <<orders, products, variants, discountCodes, cartItems>>]_vars

\* a forged request was answered while an unpaid order with a session existed
C3_Witness ==
    /\ resp.op = "webhook" /\ resp.status = 400
    /\ Len(orders) = 1 /\ orders[1].paymentStatus = "PENDING"
    /\ stripeSessions[1] = "open" /\ cartItems # {}

\* C4: cancelling an order that is PENDING/PENDING sets its status to CANCELLED
\* and leaves every product and variant quantity unchanged.
C4_UnpaidCancelKeepsStock ==
    [][\A s \in CancelSlots :
          (/\ cancelReqs[s].pc = "update"
           /\ cancelReqs[s].paymentStatus = "PENDING"
           /\ orders[cancelReqs[s].orderId].status = "PENDING"
           /\ orders[cancelReqs[s].orderId].paymentStatus = "PENDING"
           /\ CancelUpdate(s))
              => /\ orders'[cancelReqs[s].orderId].status = "CANCELLED"
                 /\ \A p \in ProductIds : products'[p].quantity = products[p].quantity
                 /\ \A v \in VariantIds : variants'[v].quantity = variants[v].quantity]_vars

\* C5: a cancel request by the owner that read the order as CONFIRMED/PAID issues
\* exactly one refund before any local change, then sets CANCELLED/REFUNDED,
\* stamps cancelledAt, appends a CANCELLED timeline entry and adds each line
\* item's quantity to its variant's (or product's) stock.
C5_PaidCancelRefundsOnceAndRestores ==
    [][\A s \in CancelSlots :
          LET r == cancelReqs[s]
              o == r.orderId
          IN  /\ (r.pc = "refund" /\ cancelReqs'[s].pc = "update")
                    => refunds'[o] = refunds[o] + 1 /\ UNCHANGED db
              /\ (r.pc = "update" /\ r.paymentStatus = "PAID" /\ CancelUpdate(s))
                    => /\ refunds' = refunds
                       /\ orders'[o].status = "CANCELLED"
                       /\ orders'[o].paymentStatus = "REFUNDED"
                       /\ orders'[o].cancelledAt
                       /\ orders'[o].timeline = Append(orders[o].timeline, "CANCELLED")
                       /\ \A p \in ProductIds :
                            products'[p].quantity =
                                products[p].quantity + ItemsOnProduct(orders[o], p)
                       /\ \A v \in VariantIds :
                            variants'[v].quantity =
                                variants[v].quantity + ItemsOnVariant(orders[o], v)]_vars

\* C2: every persisted order has total = subtotal - discountAmount + shippingCost,
\* and subtotal = the sum of its line items' totals, each the unit price times
\* the quantity.
C2_TotalIdentity ==
    \A o \in 1..Len(orders) :
        LET r == orders[o]
        IN  /\ r.total = r.subtotal - r.discountAmount + r.shippingCost
            /\ r.subtotal = SumOver(r.items, [i \in r.items |-> i.total])
            /\ \A i \in r.items : i.total = i.price * i.quantity

\* cart rows of an identity, read off the CartItem table
RowsOf(who) ==
    {c \in cartItems : c.userId = who.userId /\ c.sessionId = who.sessionId}

\* C6: checkout by an identity whose cart has no rows is answered 400
\* 'Cart is empty' and creates no order, address or payment session.
C6_EmptyCartRejected ==
    [][\A who \in Identities, code \in CodeInputs \cup {NULL}, ok \in BOOLEAN :
          (RowsOf(who) = {} /\ Checkout(who, code, ok))
              => /\ resp'.status = 400 /\ resp'.error = "Cart is empty"
                 /\ UNCHANGED <<orders, addresses, stripeSessions>>]_vars

\* an empty-cart checkout was refused while another identity's cart had rows
C6_Witness ==
    /\ resp.op = "checkout" /\ resp.error = "Cart is empty"
    /\ cartItems # {} /\ orders = <<>>

\* stock row a cart row is checked against, and the rows that exceed it
StockOf(c) ==
    IF c.variantId = NULL THEN products[c.productId].quantity
    ELSE variants[c.variantId].quantity

\* cart rows of an identity that ask for more than is in stock without backorder
ShortRows(who) ==
    {c \in RowsOf(who) : c.quantity > StockOf(c) /\ ~products[c.productId].allowBackorder}

\* C7: checkout with a cart row whose quantity exceeds the available quantity
\* (the variant's if the row has a variant, else the product's) of a product that
\* does not allow backorder answers an error carrying that product's id and the
\* available quantity and creates no order; rows of products that allow
\* backorder never cause that rejection.
C7_InsufficientStockRejected ==
    [][\A who \in Identities, code \in CodeInputs \cup {NULL}, ok \in BOOLEAN :
          /\ (ShortRows(who) # {} /\ Checkout(who, code, ok))
                => /\ resp'.status = 400 /\ resp'.error = "Not enough stock"
                   /\ \E c \in ShortRows(who) :
                         resp'.productId = c.productId /\ resp'.available = StockOf(c)
                   /\ UNCHANGED <<orders, addresses, stripeSessions>>
          /\ (ShortRows(who) = {} /\ resp'.error = "Not enough stock")
                => ~Checkout(who, code, ok)]_vars

\* a variant row was refused for the variant's own stock although its product
\* row had enough
C7_Witness ==
    /\ resp.op = "checkout" /\ resp.error = "Not enough stock"
    /\ resp.productId = "B" /\ resp.available = variants["V"].quantity
    /\ products["B"].quantity > variants["V"].quantity
    /\ orders = <<>>

\* C8: the first verified checkout.session.completed for an order that is
\* PENDING/PENDING sets it CONFIRMED/PAID, subtracts each line item's quantity
\* from its variant's stock if it has a variant and else from its product's,
\* and adds one to usedCount of the order's discount code if it has one.
C8_FirstCompletionConfirms ==
    [][\A o \in OrderIds :
          (/\ o <= Len(orders)
           /\ orders[o].status = "PENDING" /\ orders[o].paymentStatus = "PENDING"
           /\ WebhookStripe(TRUE, "checkout.session.completed", o))
              => /\ orders'[o].status = "CONFIRMED" /\ orders'[o].paymentStatus = "PAID"
                 /\ \A p \in ProductIds :
                        products'[p].quantity =
                            products[p].quantity - ItemsOnProduct(orders[o], p)
                 /\ \A v \in VariantIds :
                        variants'[v].quantity =
                            variants[v].quantity - ItemsOnVariant(orders[o], v)
                 /\ \A d \in DiscountIds :
                        discountCodes'[d].usedCount =
                            discountCodes[d].usedCount
                              + (IF orders[o].discountCodeId = d THEN 1 ELSE 0)]_vars

\* an order with two units of a variant and a discount code was confirmed once
C8_Witness ==
    /\ Len(orders) = 1 /\ deliveries[1] = 1
    /\ orders[1].status = "CONFIRMED" /\ orders[1].paymentStatus = "PAID"
    /\ orders[1].discountCodeId # NULL
    /\ \E i \in orders[1].items : i.variantId = "V" /\ i.quantity = 2
    /\ variants["V"].quantity = Variants["V"].quantity - 2
    /\ resp.op = "webhook"

\* C9: usedCount of a discount code never decreases, and no step of a
\* cancellation changes it.
C9_UsedCountNeverDecreases ==
    [][/\ \A d \in DiscountIds :
             discountCodes'[d].usedCount >= discountCodes[d].usedCount
       /\ \A s \in CancelSlots :
             (cancelReqs'[s] # cancelReqs[s]) => discountCodes' = discountCodes]_vars

\* an order placed with a code was paid and then cancelled; the use still counts
C9_Witness ==
    /\ Len(orders) = 1 /\ orders[1].status = "CANCELLED"
    /\ orders[1].discountCodeId # NULL
    /\ discountCodes[orders[1].discountCodeId].usedCount >= 1
    /\ resp.op = "cancel" /\ resp.status = 200

\* C10: a checkout that passed the cart and stock checks and submits a code is
\* rejected, creating no order, when no code equals the upper-cased input, or the
\* code is inactive, or expired, or its usedCount >= maxUses for any maxUses that
\* is set, or its minOrderAmount exceeds the subtotal.
C10_InvalidCodeRejected ==
    [][\A who \in Identities, code \in CodeInputs, ok \in BOOLEAN :
          LET found == {d \in DiscountIds : discountCodes[d].code = ToUpperCase(code)}
              rows == RowsOf(who)
              subtotal == SumOver(rows, [c \in rows |->
                              c.quantity * (IF c.variantId = NULL
                                            THEN products[c.productId].price
                                            ELSE variants[c.variantId].price)])
              refused ==
                  \/ found = {}
                  \/ \E d \in found :
                        LET rec == discountCodes[d]
                        IN  \/ ~rec.isActive
                            \/ rec.expiresAt = "PAST"
                            \/ rec.maxUses # NullInt /\ rec.usedCount >= rec.maxUses
                            \/ rec.minOrderAmount # NullInt /\ rec.minOrderAmount > subtotal
          IN  (/\ rows # {} /\ ShortRows(who) = {}
               /\ refused
               /\ Checkout(who, code, ok))
                  => /\ resp'.status = 400
                     /\ UNCHANGED <<orders, addresses, stripeSessions>>]_vars

\* subtotal of an identity's cart rows, in cents
RowsSubtotal(who) ==
    LET rows == RowsOf(who)
    IN  SumOver(rows, [c \in rows |->
            c.quantity * (IF c.variantId = NULL THEN products[c.productId].price
                          ELSE variants[c.variantId].price)])

\* a code the checkout has no ground to refuse for a cart of the given subtotal
ValidCode(rec, subtotal) ==
    /\ rec.isActive
    /\ rec.expiresAt # "PAST"
    /\ rec.maxUses = NullInt \/ rec.usedCount < rec.maxUses
    /\ rec.minOrderAmount = NullInt \/ rec.minOrderAmount <= subtotal

\* the discount codes a request's code string names
CodesNamed(code) ==
    IF code = NULL THEN {}
    ELSE {d \in DiscountIds : discountCodes[d].code = ToUpperCase(code)}

\* a checkout request that has to go through: rows in the cart, none short of
\* stock, and no code or a valid one
Acceptable(who, code) ==
    /\ RowsOf(who) # {} /\ ShortRows(who) = {}
    /\ code # NULL => /\ CodesNamed(code) # {}
                      /\ \A d \in CodesNamed(code) :
                            ValidCode(discountCodes[d], RowsSubtotal(who))

\* C11 (as the code has it): an acceptable checkout creates an order whose
\* discountAmount is subtotal x value / 100 rounded to the nearest cent for a
\* PERCENTAGE code (values 0 and 100 included), exactly value for a FIXED_AMOUNT
\* code, and 0 with no code.
C11_DiscountAmountToTheCent ==
    [][\A who \in Identities, code \in CodeInputs \cup {NULL}, ok \in BOOLEAN :
          (Acceptable(who, code) /\ Checkout(who, code, ok))
              => /\ Len(orders') = Len(orders) + 1
                 /\ LET new == orders'[Len(orders')]
                        sub == RowsSubtotal(who)
                    IN  /\ code = NULL => new.discountAmount = 0
                        /\ \A d \in CodesNamed(code) :
                             LET rec == discountCodes[d]
                                 off == Micro(new.discountAmount) - sub * rec.value
                             IN  /\ rec.type = "PERCENTAGE"
                                       => 2 * off <= 10000 /\ 2 * off >= -10000
                                 /\ rec.type = "FIXED_AMOUNT"
                                       => new.discountAmount = rec.value]_vars

\* C11 (as stated): the stored discountAmount of an order placed with a
\* PERCENTAGE code is subtotal x value / 100, of one placed with a FIXED_AMOUNT
\* code exactly value, of one placed with no code 0.
C11_DiscountAmountExact ==
    \A o \in 1..Len(orders) :
        LET r == orders[o]
        IN  /\ r.discountCodeId = NULL => r.discountAmount = 0
            /\ r.discountCodeId # NULL =>
                  LET rec == discountCodes[r.discountCodeId]
                  IN  /\ rec.type = "PERCENTAGE"
                            => Micro(r.discountAmount) = r.subtotal * rec.value
                      /\ rec.type = "FIXED_AMOUNT" => r.discountAmount = rec.value

\* 10 % on a subtotal of 200 was stored as 20
C11_Witness ==
    /\ Len(orders) = 1
    /\ orders[1].discountCodeId # NULL
    /\ discountCodes[orders[1].discountCodeId].type = "PERCENTAGE"
    /\ discountCodes[orders[1].discountCodeId].value = 1000
    /\ orders[1].subtotal = 20000
    /\ orders[1].discountAmount = 2000

\* C12: an order placed with a valid FREE_SHIPPING code has discountAmount 0 and
\* shippingCost 0, whatever its subtotal.
C12_FreeShippingCodeZeroesShipping ==
    \A o \in 1..Len(orders) :
        LET r == orders[o]
        IN  (r.discountCodeId # NULL
             /\ discountCodes[r.discountCodeId].type = "FREE_SHIPPING")
                => r.discountAmount = 0 /\ r.shippingCost = 0

\* C13: the shippingCost of an order is 0 when its subtotal is strictly above 200
\* and 25 otherwise, a subtotal of exactly 200 included; 2 units at 50 with no
\* code give shipping 25 and total 125.
C13_ShippingCostFlatRate ==
    \A o \in 1..Len(orders) :
        LET r == orders[o]
        IN  /\ r.subtotal > 20000 => r.shippingCost = 0
            /\ r.subtotal <= 20000 => r.shippingCost = 2500
            /\ (r.subtotal = 10000 /\ r.discountCodeId = NULL) => r.total = 12500

\* an order of exactly 200 was charged the flat rate
C13_Witness ==
    /\ Len(orders) = 1
    /\ orders[1].subtotal = 20000 /\ orders[1].shippingCost = 2500
    /\ resp.op = "checkout"

\* C14: every persisted order has total, subtotal, shippingCost and
\* discountAmount >= 0, also with a FIXED_AMOUNT code worth more than subtotal
\* plus shipping.
C14_AmountsNonNegative ==
    \A o \in 1..Len(orders) :
        /\ orders[o].total >= 0
        /\ orders[o].subtotal >= 0
        /\ orders[o].shippingCost >= 0
        /\ orders[o].discountAmount >= 0

\* C15: a cancel request goes ahead only for an order whose status is PENDING or
\* CONFIRMED; for PROCESSING, SHIPPED, DELIVERED, CANCELLED or REFUNDED it is
\* answered with an error, no refund is issued, and the order, its timeline and
\* every stock quantity are unchanged.
C15_CancelOnlyPendingOrConfirmed ==
    [][\A s \in CancelSlots, u \in UserIds, o \in OrderIds :
          /\ (/\ o <= Len(orders)
              /\ orders[o].status \notin {"PENDING", "CONFIRMED"}
              /\ CancelStart(s, u, o))
                => /\ resp'.op = "cancel" /\ resp'.status >= 400 /\ resp'.error # NULL
                   /\ cancelReqs' = cancelReqs
                   /\ UNCHANGED <<orders, products, variants, refunds>>
          /\ (cancelReqs[s].pc = "idle" /\ cancelReqs'[s].pc # "idle")
                => orders[cancelReqs'[s].orderId].status \in {"PENDING", "CONFIRMED"}]_vars

\* the owner's request to cancel a shipped order was refused
C15_Witness ==
    /\ Len(orders) = 1 /\ orders[1].status = "SHIPPED"
    /\ resp.op = "cancel" /\ resp.status = 400
    /\ resp.error = "Order cannot be cancelled at this stage"
    /\ refunds[1] = 0

\* C16: when the cancel of a PAID order has its session retrieval or its refund
\* call fail, the cancellation stops: the order keeps its status and
\* paymentStatus, no CANCELLED timeline entry is appended, no stock is restored,
\* no refund is recorded and the caller receives an error.
C16_RefundFailureStopsCancel ==
    [][\A s \in CancelSlots, out \in {"retrieve_error", "refund_error"} :
          (/\ cancelReqs[s].pc = "refund"
           /\ cancelReqs[s].paymentStatus = "PAID"
           /\ CancelRefund(s, out))
              => /\ resp'.op = "cancel" /\ resp'.status >= 400 /\ resp'.error # NULL
                 /\ cancelReqs'[s].pc = "idle"
                 /\ UNCHANGED <<orders, products, variants, refunds>>]_vars

\* a paid order is still CONFIRMED/PAID after its cancel failed at the gateway
C16_Witness ==
    /\ Len(orders) = 1
    /\ orders[1].status = "CONFIRMED" /\ orders[1].paymentStatus = "PAID"
    /\ orders[1].timeline = <<"PENDING", "CONFIRMED">>
    /\ ~orders[1].cancelledAt
    /\ resp.op = "cancel" /\ resp.status = 500 /\ resp.error = "refund_error"
    /\ cancelReqs[1].pc = "idle" /\ refunds[1] = 0

(* ------------ POST /webhooks/stripe, one await at a time -------------- *)
\* where handleCheckoutComplete's try block may throw: at prisma.order.update,
\* inside the inventory loop, or nowhere
FailPoints == {"order.update", "inventory", "none"}

\* a throw inside handleCheckoutComplete escapes the handler: no response is sent
AfterProcessing_Uncaught(failed) == IF failed THEN "crashed" ELSE "email"

\* try { ... await sendOrderConfirmation(order) } catch (error) { console.error }:
\* a throw ends handleCheckoutComplete, which returns to the route all the same
AfterProcessing(failed) == IF failed THEN "respond" ELSE "email"

\* the request arrives: its signature is valid or not, its event has a type and
\* names order o (0: no orderId in the session metadata)
HookReceive(sigValid, type, o) ==
    /\ webhookReq.pc = "idle"
    /\ (sigValid /\ type = "checkout.session.completed" /\ o \in 1..Len(orders))
          => stripeSessions[o] = "open" /\ deliveries[o] < MaxDeliveries
    /\ deliveries' =
          IF sigValid /\ type = "checkout.session.completed" /\ o \in 1..Len(orders)
          THEN [deliveries EXCEPT ![o] = @ + 1]
          ELSE deliveries
    /\ webhookReq' = [pc |-> "received", sigValid |-> sigValid, type |-> type,
                      orderId |-> o, failed |-> NULL]
    /\ UNCHANGED <<db, stripeSessions, refunds, cancelReqs, cartReqs, auth, resp>>

\* constructEvent in its try / catch, then the switch on event.type
HookVerify ==
    /\ webhookReq.pc = "received"
    /\ UNCHANGED <<db, gateway, cancelReqs, cartReqs, auth>>
    /\ IF ~constructEvent(webhookReq.sigValid)
       THEN /\ resp' = Respond("webhook", 400, "Webhook Error")
            /\ webhookReq' = [webhookReq EXCEPT !.pc = "idle"]
       ELSE /\ webhookReq' = [webhookReq EXCEPT !.pc =
                 IF webhookReq.type = "checkout.session.completed"
                 THEN "handle" ELSE "respond"]
            /\ UNCHANGED resp

\* handleCheckoutComplete up to the e-mail; failAt says where its try block throws
HookProcess(failAt) ==
    LET o == webhookReq.orderId
    IN  /\ webhookReq.pc = "handle"
        /\ UNCHANGED <<gateway, cancelReqs, cartReqs, auth, resp>>
        /\ IF o = 0
           THEN \* if (!orderId) return
                /\ UNCHANGED db
                /\ webhookReq' = [webhookReq EXCEPT !.pc = "respond"]
           ELSE IF o > Len(orders) \/ failAt = "order.update"
           THEN /\ UNCHANGED db
                /\ webhookReq' = [webhookReq EXCEPT !.pc = AfterProcessing(TRUE),
                                                    !.failed = "order.update"]
           ELSE IF failAt = "inventory"
           THEN /\ orders' = [orders EXCEPT ![o] = ConfirmedOrder(@)]
                /\ UNCHANGED <<products, variants, discountCodes, cartItems, addresses>>
                /\ webhookReq' = [webhookReq EXCEPT !.pc = AfterProcessing(TRUE),
                                                    !.failed = "inventory"]
           ELSE /\ handleCheckoutComplete(o)
                /\ webhookReq' = [webhookReq EXCEPT !.pc = AfterProcessing(FALSE)]

\* await sendOrderConfirmation(order): sendMail succeeds or throws, and the
\* function catches what it throws
HookEmail(mailOk) ==
    /\ webhookReq.pc = "email"
    /\ UNCHANGED <<db, gateway, cancelReqs, cartReqs, auth, resp>>
    /\ webhookReq' = [webhookReq EXCEPT !.pc = "respond",
                                        !.failed = IF mailOk THEN @ ELSE "email"]

\* res.json({ received: true })
HookRespond ==
    /\ webhookReq.pc = "respond"
    /\ UNCHANGED <<db, gateway, cancelReqs, cartReqs, auth>>
    /\ resp' = Respond("webhook", 200, NULL)
    /\ webhookReq' = [webhookReq EXCEPT !.pc = "idle"]

\* what the handler does on its own once a request is in
HookStep ==
    \/ HookVerify
    \/ \E failAt \in FailPoints : HookProcess(failAt)
    \/ \E mailOk \in BOOLEAN : HookEmail(mailOk)
    \/ HookRespond

\* u1's cart is filled; u1 checks out and the gateway posts events
InitWebhook ==
    /\ products = Catalog
    /\ variants = Variants
    /\ discountCodes = [d \in DiscountIds |-> StoreCode]
    /\ \E qa \in 0..1, qv \in 0..MaxCartQty :
          cartItems = CartRows([userId |-> "u1", sessionId |-> NULL], qa, qv)
    /\ NoOrders

NextWebhook ==
    \/ \E code \in {NULL, "save"}, ok \in BOOLEAN :
          Checkout([userId |-> "u1", sessionId |-> NULL], code, ok)
    \/ \E sig \in BOOLEAN, type \in EventTypes, o \in OrderIds \cup {0} :
          HookReceive(sig, type, o)
    \/ HookStep

\* every await of the handler returns or throws: a request in the handler is
\* not left waiting forever
SpecWebhook == InitWebhook /\ [][NextWebhook]_vars /\ WF_vars(HookStep)

\* C17: once the signature check has passed, the webhook request is eventually
\* answered 200 {received: true}, for every event type and also when order
\* processing or the confirmation e-mail fails; a request whose signature check
\* fails is answered 400 and never gets past the check.
C17_VerifiedEventuallyAcked ==
    /\ (webhookReq.pc \in {"handle", "email", "respond"})
          ~> (webhookReq.pc = "idle" /\ resp.op = "webhook" /\ resp.status = 200)
    /\ [](webhookReq.pc \in {"handle", "email", "respond"} => webhookReq.sigValid)
    /\ [][(webhookReq.pc = "received" /\ ~webhookReq.sigValid /\ HookStep)
             => (webhookReq'.pc = "idle" /\ resp'.status = 400)]_vars

\* a completed event whose processing threw after the order row was written
\* has been acknowledged
C17_Witness ==
    /\ webhookReq.pc = "idle" /\ webhookReq.sigValid
    /\ webhookReq.type = "checkout.session.completed"
    /\ webhookReq.failed = "inventory"
    /\ resp.op = "webhook" /\ resp.status = 200
    /\ orders[1].paymentStatus = "PAID" /\ products = Catalog /\ variants = Variants

\* C18: POST /checkout, whether it succeeds or fails, leaves every product and
\* variant quantity unchanged; among checkout, webhook, cancel and admin status
\* change, only a verified checkout.session.completed event lowers a quantity.
C18_OnlyCompletionDecrementsStock ==
    [][/\ \A who \in Identities, code \in {NULL, "save"}, ok \in BOOLEAN :
             ~((products' # products \/ variants' # variants) /\ Checkout(who, code, ok))
       /\ ((\E p \in ProductIds : products'[p].quantity < products[p].quantity)
             \/ (\E v \in VariantIds : variants'[v].quantity < variants[v].quantity))
             => \E o \in OrderIds :
                   WebhookStripe(TRUE, "checkout.session.completed", o)]_vars

\* an order was placed with a payment session and the stock is what it was
C18_Witness ==
    /\ Len(orders) = 1 /\ orders[1].items # {}
    /\ resp.op = "checkout" /\ resp.status = 200 /\ stripeSessions[1] = "open"
    /\ products = Catalog /\ variants = Variants

(* ---------------- rival checkouts for the last unit ------------------- *)
\* u1 and the guest s1 each have the single unit of product A in their cart
RivalCarts ==
    CartRows([userId |-> "u1", sessionId |-> NULL], 1, 0)
      \cup {[c EXCEPT !.id = 2] : c \in CartRows([userId |-> NULL, sessionId |-> "s1"], 1, 0)}

InitOversell ==
    /\ products = Catalog
    /\ variants = Variants
    /\ discountCodes = [d \in DiscountIds |-> StoreCode]
    /\ cartItems = RivalCarts
    /\ orders = <<>>
    /\ addresses = 0
    /\ stripeSessions = [o \in 1..MaxRivalOrders |-> "none"]
    /\ deliveries = [o \in 1..MaxRivalOrders |-> 0]
    /\ refunds = [o \in 1..MaxRivalOrders |-> 0]
    /\ cancelReqs = [s \in CancelSlots |-> IdleReq]
    /\ webhookReq = IdleHook
    /\ cartReqs = [s \in CartSlots |-> IdleCartReq]
    /\ sessions = {}
    /\ now = 0
    /\ resp = NoResp

NextOversell ==
    \/ \E who \in Identities, code \in {NULL, "save"}, ok \in BOOLEAN :
          Checkout(who, code, ok)
    \/ \E sig \in BOOLEAN, type \in EventTypes, o \in 0..MaxRivalOrders :
          WebhookStripe(sig, type, o)

SpecOversell == InitOversell /\ [][NextOversell]_vars

\* C19: the stock check of checkout reserves nothing and a completed payment
\* takes its units whatever is left: product A's quantity is always its first
\* quantity less the units of every completed payment, so two checkouts for the
\* last unit both get a payment session and their two payments leave it below 0.
C19_StockFollowsCompletedPayments ==
    /\ \A o \in 1..Len(orders) :
          orders[o].stripePaymentId # NULL <=> stripeSessions[o] = "open"
    /\ products["A"].quantity =
          Catalog["A"].quantity
            - SumOver(1..Len(orders),
                      [o \in 1..Len(orders) |->
                          deliveries[o] * ItemsOnProduct(orders[o], "A")])

\* both rivals got a session for the last unit, both paid once, stock is -1
C19_Witness ==
    /\ Len(orders) = 2
    /\ orders[1].userId # orders[2].userId
    /\ \A o \in 1..2 : /\ stripeSessions[o] = "open"
                       /\ deliveries[o] = 1
                       /\ orders[o].paymentStatus = "PAID"
                       /\ ItemsOnProduct(orders[o], "A") = 1
    /\ ~Catalog["A"].allowBackorder /\ Catalog["A"].quantity = 1
    /\ products["A"].quantity < 0

\* C20: when the gateway call fails after the order was persisted, the order
\* stays PENDING/PENDING with no payment-session reference, no stock changes and
\* the caller gets an error; a checkout that fails before (empty cart, stock,
\* discount) leaves no order.
C20_GatewayFailureLeavesOrphan ==
    [][\A who \in Identities, code \in CodeInputs \cup {NULL} :
          /\ (Acceptable(who, code) /\ Checkout(who, code, FALSE))
                => /\ Len(orders') = Len(orders) + 1
                   /\ LET new == orders'[Len(orders')]
                      IN  /\ new.status = "PENDING" /\ new.paymentStatus = "PENDING"
                          /\ new.stripePaymentId = NULL
                   /\ resp'.status >= 400 /\ resp'.error # NULL
                   /\ UNCHANGED <<products, variants, stripeSessions>>
          /\ \A ok \in BOOLEAN :
                ((RowsOf(who) = {} \/ ShortRows(who) # {} \/ resp'.status = 400)
                 /\ Checkout(who, code, ok))
                    => UNCHANGED <<orders, stripeSessions>>]_vars

\* an order without session reference was left behind by a failed gateway call
C20_Witness ==
    /\ Len(orders) = 1
    /\ orders[1].status = "PENDING" /\ orders[1].paymentStatus = "PENDING"
    /\ orders[1].stripePaymentId = NULL /\ stripeSessions[1] = "none"
    /\ resp.op = "checkout" /\ resp.status = 500

\* C21: after a verified checkout.session.completed event was processed for an
\* order of an authenticated user, that user has no cart rows and the rows of
\* everyone else are kept; for a guest order no cart row is deleted.
C21_PurchaseClearsOwnersCart ==
    [][\A o \in 1..MaxRivalOrders :
          (o <= Len(orders) /\ WebhookStripe(TRUE, "checkout.session.completed", o))
              => IF orders[o].userId # NULL
                 THEN /\ \A c \in cartItems' : c.userId # orders[o].userId
                      /\ \A c \in cartItems : c.userId # orders[o].userId => c \in cartItems'
                 ELSE cartItems' = cartItems]_vars

\* the user's and the guest's orders were both paid: the user's row is gone,
\* the guest's row is still there
C21_Witness ==
    /\ Len(orders) = 2
    /\ \A o \in 1..2 : orders[o].paymentStatus = "PAID" /\ deliveries[o] >= 1
    /\ \E o \in 1..2 : orders[o].userId = "u1"
    /\ \E o \in 1..2 : orders[o].userId = NULL
    /\ cartItems # {}
    /\ \A c \in cartItems : c.userId = NULL /\ c.sessionId = "s1"

\* C24: the timeline is append-only and complete: a new order starts with one
\* entry carrying its status; every step that sets an order's status appends
\* exactly one entry carrying the new status and no step removes or edits an
\* entry; so the last entry always carries the order's current status.
C24_TimelineAppendOnly ==
    /\ [](\A o \in 1..Len(orders) :
             orders[o].timeline[Len(orders[o].timeline)] = orders[o].status)
    /\ [][/\ Len(orders') >= Len(orders)
          /\ \A o \in 1..Len(orders') :
                IF o > Len(orders)
                THEN orders'[o].timeline = <<orders'[o].status>>
                ELSE \/ /\ orders'[o].timeline = orders[o].timeline
                        /\ orders'[o].status = orders[o].status
                     \/ orders'[o].timeline =
                           Append(orders[o].timeline, orders'[o].status)]_vars

\* an order was created, confirmed by the webhook and cancelled
C24_Witness ==
    /\ Len(orders) = 1
    /\ orders[1].timeline = <<"PENDING", "CONFIRMED", "CANCELLED">>
    /\ orders[1].status = "CANCELLED"

\* C27: once an order is CANCELLED, a verified checkout.session.completed event
\* for it leaves its status and paymentStatus alone and changes no stock
\* quantity and no usedCount.
C27_CancelledStaysCancelled ==
    [][\A o \in OrderIds :
          (/\ o <= Len(orders)
           /\ orders[o].status = "CANCELLED"
           /\ WebhookStripe(TRUE, "checkout.session.completed", o))
              => /\ orders'[o].status = "CANCELLED"
                 /\ orders'[o].paymentStatus = orders[o].paymentStatus
                 /\ \A p \in ProductIds : products'[p].quantity = products[p].quantity
                 /\ \A v \in VariantIds : variants'[v].quantity = variants[v].quantity
                 /\ \A d \in DiscountIds :
                        discountCodes'[d].usedCount = discountCodes[d].usedCount]_vars

\* C30: whenever the cancel operation sets an order's paymentStatus to REFUNDED,
\* exactly one refund was issued to the gateway for that order.
C30_RefundedMeansRefunded ==
    [][\A s \in CancelSlots :
          (/\ cancelReqs[s].pc = "update"
           /\ CancelUpdate(s)
           /\ orders'[cancelReqs[s].orderId].paymentStatus = "REFUNDED")
              => refunds'[cancelReqs[s].orderId] = 1]_vars

(* --------------------- PATCH /:id/status on its own ------------------- *)
\* u1's cart is filled; u1 checks out, the payment completes, and the admin
\* moves the order from status to status
InitAdmin == InitWebhook

NextAdmin ==
    \/ \E code \in {NULL, "save"} :
          Checkout([userId |-> "u1", sessionId |-> NULL], code, TRUE)
    \/ \E o \in OrderIds : WebhookStripe(TRUE, "checkout.session.completed", o)
    \/ \E o \in OrderIds, st \in OrderStatus, tn \in {NULL, "T1"} :
          /\ o <= Len(orders) => Len(orders[o].timeline) < MaxAdminTimeline
          /\ PatchStatus(o, st, tn)

SpecAdmin == InitAdmin /\ [][NextAdmin]_vars

\* C25: the admin status endpoint takes an order from any status to any status
\* without rejection, and changes no product or variant quantity, no usedCount
\* and no paymentStatus.
C25_AnyStatusToAnyStatus ==
    [][\A o \in OrderIds, st \in OrderStatus, tn \in {NULL, "T1"} :
          (o <= Len(orders) /\ PatchStatus(o, st, tn))
              => /\ resp'.op = "status" /\ resp'.status = 200
                 /\ orders'[o].status = st
                 /\ orders'[o].paymentStatus = orders[o].paymentStatus
                 /\ UNCHANGED <<products, variants, discountCodes>>]_vars

\* an order was moved to DELIVERED and from there back to PENDING
C25_Witness ==
    /\ Len(orders) = 1
    /\ orders[1].timeline = <<"PENDING", "DELIVERED", "PENDING">>
    /\ orders[1].status = "PENDING"
    /\ resp.op = "status" /\ resp.status = 200

\* C26: every admin transition to SHIPPED stamps shippedAt (and records the
\* tracking number when one is supplied), and every transition to DELIVERED
\* stamps deliveredAt.
C26_ShippedStampsShippedAt ==
    [][\A o \in OrderIds, st \in OrderStatus, tn \in {NULL, "T1"} :
          (o <= Len(orders) /\ PatchStatus(o, st, tn))
              => /\ st = "SHIPPED" => orders'[o].shippedAt
                 /\ (st = "SHIPPED" /\ tn # NULL) => orders'[o].trackingNumber = tn
                 /\ st = "DELIVERED" => orders'[o].deliveredAt]_vars

\* C28: a code with maxUses set is never used more often than maxUses allows,
\* usedCount <= maxUses in every reachable state; each payment counted here
\* was delivered once, so no count comes from a redelivered event.
C28_UsedCountWithinMaxUses ==
    (\A o \in DOMAIN deliveries : deliveries[o] <= 1) =>
        \A d \in DOMAIN discountCodes :
            discountCodes[d].maxUses # NullInt =>
                discountCodes[d].usedCount <= discountCodes[d].maxUses

(* --------------------- cancel requests side by side ------------------- *)
\* u1's cart is filled; u1 checks out, the payment may complete, and u1 sends
\* POST /:id/cancel more than once, a request starting before another is done
InitCancelRace ==
    /\ products = Catalog
    /\ variants = Variants
    /\ discountCodes = [d \in DiscountIds |-> StoreCode]
    /\ \E qa \in 0..1, qv \in 0..MaxCartQty :
          cartItems = CartRows([userId |-> "u1", sessionId |-> NULL], qa, qv)
    /\ orders = <<>>
    /\ addresses = 0
    /\ stripeSessions = [o \in OrderIds |-> "none"]
    /\ deliveries = [o \in OrderIds |-> 0]
    /\ refunds = [o \in OrderIds |-> 0]
    /\ cancelReqs = [s \in 1..MaxCancelRequests |-> IdleReq]
    /\ webhookReq = IdleHook
    /\ cartReqs = [s \in CartSlots |-> IdleCartReq]
    /\ sessions = {}
    /\ now = 0
    /\ resp = NoResp

NextCancelRace ==
    \/ \E code \in {NULL, "save"} :
          Checkout([userId |-> "u1", sessionId |-> NULL], code, TRUE)
    \/ \E o \in OrderIds : WebhookStripe(TRUE, "checkout.session.completed", o)
    \/ \E s \in 1..MaxCancelRequests, o \in OrderIds : CancelStart(s, "u1", o)
    \/ \E s \in 1..MaxCancelRequests, out \in RefundOutcomes : CancelRefund(s, out)
    \/ \E s \in 1..MaxCancelRequests : CancelUpdate(s)

SpecCancelRace == InitCancelRace /\ [][NextCancelRace]_vars

\* C29: however two or more cancel requests for the same order interleave, the
\* stock of each of its line items is put back at most once and at most one
\* refund is issued; an order that a payment event confirmed again after a
\* cancel is left out, its second cancel is not a repeat of the first.
C29_CancelRestoresAndRefundsOnce ==
    \A o \in 1..Len(orders) :
        LET tl == orders[o].timeline
        IN  (\A i, j \in 1..Len(tl) :
                ~(i < j /\ tl[i] = "CANCELLED" /\ tl[j] = "CONFIRMED"))
            => /\ \A p \in ProductIds :
                     products[p].quantity <=
                        Catalog[p].quantity
                          + (1 - deliveries[o]) * ItemsOnProduct(orders[o], p)
               /\ \A v \in VariantIds :
                     variants[v].quantity <=
                        Variants[v].quantity
                          + (1 - deliveries[o]) * ItemsOnVariant(orders[o], v)
               /\ refunds[o] <= 1

(* ------------------ the cart routes, request by request --------------- *)
\* CartItem_userId_productId_variantId_key and
\* CartItem_sessionId_productId_variantId_key: a unique index compares rows whose
\* indexed columns are all non-null, NULL is distinct from NULL
UniqueViolation(row, rows) ==
    \E c \in rows :
        /\ c.id # row.id
        /\ c.productId = row.productId
        /\ c.variantId # NULL /\ c.variantId = row.variantId
        /\ \/ c.userId # NULL /\ c.userId = row.userId
           \/ c.sessionId # NULL /\ c.sessionId = row.sessionId

\* id of a new CartItem row: ids are unique and a request that holds the id of
\* a deleted row never meets it again
NewCartId ==
    LET held == {cartReqs[s].existing.id :
                    s \in {t \in DOMAIN cartReqs : cartReqs[t].existing.id # 0}}
                \cup UNION {{g.id : g \in cartReqs[s].guestItems} : s \in DOMAIN cartReqs}
        used == {c.id : c \in cartItems} \cup held
    IN  CHOOSE i \in 1..(Cardinality(used) + 1) : i \notin used

\* prisma.cartItem.findFirst: a row of the set, none when the set is empty
FindFirst(rows) ==
    IF rows = {} THEN NoRow ELSE CHOOSE c \in rows : \A d \in rows : c.id <= d.id

\* POST /cart/add up to and including findFirst and the stock checks made on
\* what was read
CartAddRead(slot, who, target, quantity) ==
    LET probe == [productId |-> target.productId, variantId |-> target.variantId,
                  quantity |-> quantity]
        backorder == products[target.productId].allowBackorder
        existingItem == FindFirst({c \in CartOf(who) :
                                      /\ c.productId = target.productId
                                      /\ c.variantId = target.variantId})
        short == \/ quantity > AvailableQty(probe)
                 \/ /\ existingItem.id # 0
                    /\ existingItem.quantity + quantity > AvailableQty(probe)
    IN  /\ cartReqs[slot].pc = "idle"
        /\ UNCHANGED <<db, gateway, cancelReqs, webhookReq, auth>>
        /\ IF ~backorder /\ short
           THEN /\ resp' = [Respond("cart.add", 400, "Not enough stock available")
                              EXCEPT !.available = AvailableQty(probe)]
                /\ UNCHANGED cartReqs
           ELSE /\ cartReqs' = [cartReqs EXCEPT ![slot] =
                     [IdleCartReq EXCEPT !.pc = "add",
                                         !.userId = who.userId,
                                         !.sessionId = who.sessionId,
                                         !.productId = target.productId,
                                         !.variantId = target.variantId,
                                         !.quantity = quantity,
                                         !.existing = existingItem]]
                /\ UNCHANGED resp

\* POST /cart/add from findFirst's answer on: cartItem.update of the row that
\* was found, or cartItem.create
CartAddWrite(slot) ==
    LET r == cartReqs[slot]
        row == [id |-> NewCartId, userId |-> r.userId, sessionId |-> r.sessionId,
                productId |-> r.productId, variantId |-> r.variantId,
                quantity |-> r.quantity]
    IN  /\ r.pc = "add"
        /\ UNCHANGED <<products, variants, discountCodes, orders, addresses,
                       gateway, cancelReqs, webhookReq, auth>>
        /\ cartReqs' = [cartReqs EXCEPT ![slot] = IdleCartReq]
        /\ IF r.existing.id # 0
           THEN IF \E c \in cartItems : c.id = r.existing.id
                THEN /\ r.existing.quantity + r.quantity <= MaxRowQty
                     /\ cartItems' =
                           {IF c.id = r.existing.id
                            THEN [c EXCEPT !.quantity = r.existing.quantity + r.quantity]
                            ELSE c : c \in cartItems}
                     /\ resp' = Respond("cart.add", 200, NULL)
                ELSE /\ resp' = Respond("cart.add", 500, "Record to update not found")
                     /\ UNCHANGED cartItems
           ELSE IF UniqueViolation(row, cartItems)
                THEN /\ resp' = Respond("cart.add", 500, "Unique constraint failed")
                     /\ UNCHANGED cartItems
                ELSE /\ Cardinality(cartItems) < MaxCartRows
                     /\ cartItems' = cartItems \cup {row}
                     /\ resp' = Respond("cart.add", 200, NULL)

\* PUT /cart/:itemId
CartUpdate(who, itemId, quantity) ==
    LET cartItem == FindFirst({c \in CartOf(who) : c.id = itemId})
    IN  /\ UNCHANGED <<products, variants, discountCodes, orders, addresses,
                       gateway, cancelReqs, webhookReq, cartReqs, auth>>
        /\ IF cartItem.id = 0
           THEN /\ resp' = Respond("cart.update", 404, "Cart item not found")
                /\ UNCHANGED cartItems
           ELSE IF /\ ~products[cartItem.productId].allowBackorder
                   /\ quantity > AvailableQty(cartItem)
           THEN /\ resp' = [Respond("cart.update", 400, "Not enough stock available")
                              EXCEPT !.available = AvailableQty(cartItem)]
                /\ UNCHANGED cartItems
           ELSE /\ cartItems' = (cartItems \ {cartItem})
                                  \cup {[cartItem EXCEPT !.quantity = quantity]}
                /\ resp' = Respond("cart.update", 200, NULL)

\* DELETE /cart/:itemId
CartRemove(who, itemId) ==
    LET cartItem == FindFirst({c \in CartOf(who) : c.id = itemId})
    IN  /\ UNCHANGED <<products, variants, discountCodes, orders, addresses,
                       gateway, cancelReqs, webhookReq, cartReqs, auth>>
        /\ IF cartItem.id = 0
           THEN /\ resp' = Respond("cart.remove", 404, "Cart item not found")
                /\ UNCHANGED cartItems
           ELSE /\ cartItems' = cartItems \ {cartItem}
                /\ resp' = Respond("cart.remove", 200, NULL)

\* DELETE /cart
CartClear(who) ==
    /\ UNCHANGED <<products, variants, discountCodes, orders, addresses,
                   gateway, cancelReqs, webhookReq, cartReqs, auth>>
    /\ cartItems' = cartItems \ CartOf(who)
    /\ resp' = Respond("cart.clear", 200, NULL)

\* POST /cart/merge up to findMany of the guest rows
CartMergeRead(slot, userId, sessionId) ==
    LET guestItems == {c \in cartItems : c.sessionId = sessionId}
    IN  /\ cartReqs[slot].pc = "idle"
        /\ UNCHANGED <<db, gateway, cancelReqs, webhookReq, auth>>
        /\ IF userId = NULL
           THEN /\ resp' = Respond("cart.merge", 401, "Authentication required")
                /\ UNCHANGED cartReqs
           ELSE IF sessionId = NULL \/ guestItems = {}
           THEN /\ resp' = Respond("cart.merge", 200, NULL)
                /\ UNCHANGED cartReqs
           ELSE /\ cartReqs' = [cartReqs EXCEPT ![slot] =
                     [IdleCartReq EXCEPT !.pc = "mergeFind",
                                         !.userId = userId,
                                         !.guestItems = guestItems]]
                /\ UNCHANGED resp

\* the loop's findFirst for the next guest row
CartMergeFind(slot) ==
    LET r == cartReqs[slot]
        guestItem == FindFirst(r.guestItems)
        existingUserItem ==
            FindFirst({c \in cartItems : /\ c.userId = r.userId
                                         /\ c.productId = guestItem.productId
                                         /\ c.variantId = guestItem.variantId})
    IN  /\ r.pc = "mergeFind"
        /\ UNCHANGED <<db, gateway, cancelReqs, webhookReq, auth, resp>>
        /\ cartReqs' = [cartReqs EXCEPT ![slot] =
              [r EXCEPT !.pc = "mergeWrite",
                        !.guestItem = guestItem,
                        !.existing = existingUserItem]]

\* the loop's writes for that guest row: add its quantity to the user's row and
\* delete it, or hand it over to the user; a write that throws ends the request
CartMergeWrite(slot) ==
    LET r == cartReqs[slot]
        g == r.guestItem
        e == r.existing
        has(id) == \E c \in cartItems : c.id = id
        rest == r.guestItems \ {g}
        moved == [g EXCEPT !.userId = r.userId, !.sessionId = NULL]
        summed == {IF c.id = e.id THEN [c EXCEPT !.quantity = e.quantity + g.quantity]
                   ELSE c : c \in cartItems}
        thrown == IF e.id # 0 THEN ~has(e.id) \/ ~has(g.id)
                  ELSE ~has(g.id) \/ UniqueViolation(moved, cartItems)
    IN  /\ r.pc = "mergeWrite"
        /\ UNCHANGED <<products, variants, discountCodes, orders, addresses,
                       gateway, cancelReqs, webhookReq, auth>>
        /\ e.id # 0 => e.quantity + g.quantity <= MaxRowQty
        /\ cartItems' =
              IF e.id # 0
              THEN IF ~has(e.id) THEN cartItems
                   ELSE {c \in summed : c.id # g.id}
              ELSE IF thrown THEN cartItems
                   ELSE (cartItems \ {c \in cartItems : c.id = g.id}) \cup {moved}
        /\ IF thrown
           THEN /\ resp' = Respond("cart.merge", 500, "write failed")
                /\ cartReqs' = [cartReqs EXCEPT ![slot] = IdleCartReq]
           ELSE IF rest = {}
           THEN /\ resp' = Respond("cart.merge", 200, NULL)
                /\ cartReqs' = [cartReqs EXCEPT ![slot] = IdleCartReq]
           ELSE /\ UNCHANGED resp
                /\ cartReqs' = [cartReqs EXCEPT ![slot] =
                      [r EXCEPT !.pc = "mergeFind", !.guestItems = rest,
                                !.guestItem = NoRow, !.existing = NoRow]]

\* an empty cart table; u1 and the guest session s1 use the cart routes, each
\* add for one unit, and u1 merges the guest cart, one merge at a time (slot 1)
\* with add requests overlapping it and each other
InitCart ==
    /\ products = Catalog
    /\ variants = Variants
    /\ discountCodes = [d \in DiscountIds |-> StoreCode]
    /\ cartItems = {}
    /\ orders = <<>>
    /\ addresses = 0
    /\ stripeSessions = [o \in OrderIds |-> "none"]
    /\ deliveries = [o \in OrderIds |-> 0]
    /\ refunds = [o \in OrderIds |-> 0]
    /\ cancelReqs = [s \in CancelSlots |-> IdleReq]
    /\ webhookReq = IdleHook
    /\ cartReqs = [s \in 1..MaxCartRequests |-> IdleCartReq]
    /\ sessions = {}
    /\ now = 0
    /\ resp = NoResp

NextCart ==
    \/ \E s \in 1..MaxCartRequests, who \in Identities, t \in CartTargets :
          CartAddRead(s, who, t, 1)
    \/ \E s \in 1..MaxCartRequests : CartAddWrite(s)
    \/ \E who \in Identities, id \in 1..MaxCartRows, q \in 1..MaxCartQty :
          CartUpdate(who, id, q)
    \/ \E who \in Identities, id \in 1..MaxCartRows : CartRemove(who, id)
    \/ \E who \in Identities : CartClear(who)
    \/ \E u \in {NULL, "u1"}, sid \in {NULL, "s1"} : CartMergeRead(1, u, sid)
    \/ \E s \in 1..MaxCartRequests : CartMergeFind(s)
    \/ \E s \in 1..MaxCartRequests : CartMergeWrite(s)

SpecCart == InitCart /\ [][NextCart]_vars

\* C22: after any sequence and any interleaving of cart add, update, remove,
\* clear and merge requests there is at most one cart row per identity, product
\* and variant, every row has exactly one of userId and sessionId set, and
\* every row's quantity is a positive integer.
C22_OneRowPerIdentityProductVariant ==
    /\ \A c, d \in cartItems :
          (/\ c.userId = d.userId /\ c.sessionId = d.sessionId
           /\ c.productId = d.productId /\ c.variantId = d.variantId) => c = d
    /\ \A c \in cartItems : (c.userId = NULL) # (c.sessionId = NULL)
    /\ \A c \in cartItems : c.quantity \in Nat /\ c.quantity > 0

(* ------------------------- the auth routes ---------------------------- *)
\* jwt.sign({ userId }, secret, { expiresIn }): the token is the signed payload
\* { userId, iat, exp }, iat the clock's second and exp a fixed time after it, so
\* two tokens of one kind signed for one user in the same second are one string
jwtSign(kind, userId) == [kind |-> kind, userId |-> userId, iat |-> now]

\* generateTokens(userId)
generateTokens(userId) ==
    [accessToken |-> jwtSign("access", userId),
     refreshToken |-> jwtSign("refresh", userId)]

\* tokens a client may present: the tokens the server signs while the clock
\* runs and one with a bad signature (the clock stays far below the 15 minutes
\* an access token lives)
Tokens ==
    [kind : {"access", "refresh"}, userId : UserIds, iat : 0..MaxClock]
      \cup {[kind |-> "forged", userId |-> "u1", iat |-> 0]}

\* no token in the request
NoToken == [kind |-> "none", userId |-> NULL, iat |-> 0]

\* jwt.verify(token, secret) does not throw
jwtVerify(token) == token.kind # "forged"

\* Session_token_key and Session_refreshToken_key
SessionUniqueViolation(row, rows) ==
    \E s \in rows : /\ s.id # row.id
                    /\ (s.token = row.token \/ s.refreshToken = row.refreshToken)

\* POST /auth/login
Login(userId, passwordOk) ==
    LET tokens == generateTokens(userId)
        id == CHOOSE i \in 1..(Cardinality(sessions) + 1) :
                 \A s \in sessions : s.id # i
        row == [id |-> id, userId |-> userId, token |-> tokens.accessToken,
                refreshToken |-> tokens.refreshToken]
    IN  /\ UNCHANGED <<db, gateway, cancelReqs, webhookReq, cartReqs, now>>
        /\ IF ~passwordOk
           THEN /\ resp' = Respond("login", 401, "Invalid email or password")
                /\ UNCHANGED sessions
           ELSE IF SessionUniqueViolation(row, sessions)
           THEN /\ resp' = Respond("login", 500, "Unique constraint failed")
                /\ UNCHANGED sessions
           ELSE /\ Cardinality(sessions) < MaxSessions
                /\ sessions' = sessions \cup {row}
                /\ resp' = Respond("login", 200, NULL)

\* POST /auth/refresh
Refresh(refreshToken) ==
    LET found == {s \in sessions : s.refreshToken = refreshToken}
        session == CHOOSE s \in found : TRUE
        tokens == generateTokens(session.userId)
        row == [session EXCEPT !.token = tokens.accessToken,
                               !.refreshToken = tokens.refreshToken]
    IN  /\ UNCHANGED <<db, gateway, cancelReqs, webhookReq, cartReqs, now>>
        /\ IF refreshToken = NoToken
           THEN /\ resp' = Respond("refresh", 401, "Refresh token required")
                /\ UNCHANGED sessions
           ELSE IF ~jwtVerify(refreshToken)
           THEN /\ resp' = Respond("refresh", 401, "Invalid refresh token")
                /\ UNCHANGED sessions
           ELSE IF found = {}
           THEN /\ resp' = Respond("refresh", 401, "Session expired")
                /\ UNCHANGED sessions
           ELSE IF SessionUniqueViolation(row, sessions)
           THEN /\ resp' = Respond("refresh", 500, "Unique constraint failed")
                /\ UNCHANGED sessions
           ELSE /\ sessions' = (sessions \ {session}) \cup {row}
                /\ resp' = Respond("refresh", 200, NULL)

\* authenticate lets the request through
Authenticated(token) ==
    /\ token # NoToken
    /\ jwtVerify(token)
    /\ \E s \in sessions : s.userId = token.userId /\ s.token = token

\* a request to a route behind authenticate (GET /auth/me)
Authenticate(token) ==
    /\ UNCHANGED <<db, gateway, cancelReqs, webhookReq, cartReqs, auth>>
    /\ resp' = IF token = NoToken
               THEN Respond("authenticate", 401, "Authentication required")
               ELSE IF ~jwtVerify(token)
               THEN Respond("authenticate", 401, "Invalid or expired token")
               ELSE IF ~Authenticated(token)
               THEN Respond("authenticate", 401, "Session expired")
               ELSE Respond("authenticate", 200, NULL)

\* POST /auth/logout
Logout(token) ==
    /\ UNCHANGED <<db, gateway, cancelReqs, webhookReq, cartReqs, now>>
    /\ IF Authenticated(token)
       THEN /\ sessions' = {s \in sessions : s.token # token}
            /\ resp' = Respond("logout", 200, NULL)
       ELSE /\ resp' = Respond("logout", 401, "Session expired")
            /\ UNCHANGED sessions

\* a second passes
Tick ==
    /\ now < MaxClock
    /\ now' = now + 1
    /\ UNCHANGED <<db, gateway, cancelReqs, webhookReq, cartReqs, sessions, resp>>

\* no session yet; users log in, refresh, call authenticated routes and log out
InitAuth ==
    /\ products = Catalog
    /\ variants = Variants
    /\ discountCodes = [d \in DiscountIds |-> StoreCode]
    /\ cartItems = {}
    /\ NoOrders

NextAuth ==
    \/ \E u \in UserIds, ok \in BOOLEAN : Login(u, ok)
    \/ \E t \in Tokens \cup {NoToken} : Refresh(t)
    \/ \E t \in Tokens \cup {NoToken} : Authenticate(t)
    \/ \E t \in Tokens : Logout(t)
    \/ Tick

SpecAuth == InitAuth /\ [][NextAuth]_vars

\* C23: after a successful POST /auth/refresh with refresh token R the session's
\* access token and refresh token are both replaced, no session answers to R
\* any more (a later refresh with R gets 401), and the old access token no
\* longer passes authenticate.
C23_RefreshRotatesBothTokens ==
    [][\A R \in Tokens :
          ((\E s \in sessions : s.refreshToken = R) /\ Refresh(R)
              /\ resp'.status = 200)
          => LET old == CHOOSE s \in sessions : s.refreshToken = R
                 new == CHOOSE s \in sessions' : s.id = old.id
             IN  /\ new.token # old.token
                 /\ new.refreshToken # R
                 /\ ~\E s \in sessions' : s.refreshToken = R
                 /\ ~\E s \in sessions' : s.userId = old.userId /\ s.token = old.token]_vars

==============================================================================
